---- MODULE Spec2Model ----
(***************************************************************************)
(* Announcements endpoints of the High School Management System API        *)
(* (src/backend/routers/announcements.py).                                 *)
(*                                                                         *)
(* Strings that the code parses or compares (timestamps, announcement ids) *)
(* are sequences of character codes, so that parsing, formatting and the   *)
(* store's lexicographic string comparison are computed, not assumed.      *)
(* A timestamp is written as one digit (the zero-padded date/time part),   *)
(* optionally followed by 'Z' (code 90) or by '+' (code 43, standing for   *)
(* the UTC offset "+00:00").                                               *)
(***************************************************************************)
EXTENDS Integers, Sequences, FiniteSets, TLC

VARIABLES store,    \* announcements_collection: _id -> document
          nextId,   \* the next ObjectId the store hands out on insert_one
          clock,    \* the wall clock read by datetime.now()
          req,      \* per worker: the request it handles, its position and its response
          writer    \* history: per _id, the worker whose update_one last wrote it

vars == <<store, nextId, clock, req, writer>>

-----------------------------------------------------------------------------
(* Bounds and input domains *)

MaxClock == 2                      \* the clock runs 1..MaxClock

ObjectIds == {1, 2}                \* the _id's the store hands out, in this order
Workers == {"w1", "w2"}            \* request handlers that may run concurrently

Absent == "<absent>"               \* a query parameter / field that is None
NoneV == <<-1>>                    \* None in a string-valued (date) position
EmptyStr == <<>>                   \* ""

N1 == <<1>>                        \* a naive timestamp ("...T01")
N2 == <<2>>                        \* a later naive timestamp ("...T02")
N3 == <<3>>                        \* a still later one ("...T03")
Z1 == <<1, 90>>                    \* a timestamp with a zone ("...T01Z")
BadDate == <<120>>                 \* "x": not ISO-8601
BadIdStr == <<120>>                \* "x": not a well-formed ObjectId

teachers_collection == {"t1", "t2"}          \* _id's of the Teacher Directory

Payload(m, s, e) == [message |-> m, start_date |-> s, end_date |-> e]

\* message / start_date / end_date triples tried, one or more per validation outcome
ValidPayloads == {Payload("m1", NoneV, N1), Payload("m2", N2, N3),
                  Payload("m1", EmptyStr, N2)}
InvalidPayloads == {Payload("m2", N2, N2), Payload("m1", N2, N1),
                    Payload("m1", N1, BadDate), Payload("m2", NoneV, BadDate),
                    Payload("m2", BadDate, N2), Payload("m1", Z1, N2)}
Payloads == ValidPayloads \cup InvalidPayloads

IdInputs == {<<n>> : n \in ObjectIds} \cup {BadIdStr}
CreatorInputs == {Absent, "", "zz", "t1"}    \* teacher_username of create/delete/list
EditorInputs == {Absent, "", "zz", "t2"}     \* teacher_username of update

-----------------------------------------------------------------------------
(* Python / BSON / MongoDB primitives used by the handlers *)

\* Python truthiness of an Optional[str] date argument (`if start_date:`)
Truthy(s) == s # NoneV /\ s # EmptyStr

\* `not teacher_username`
NoTeacher(t) == t = Absent \/ t = ""

\* teachers_collection.find_one({"_id": teacher_username})
FindTeacher(t) == t \in teachers_collection

\* str.replace('Z', '+00:00')
ReplaceZ(s) == [i \in 1..Len(s) |-> IF s[i] = 90 THEN 43 ELSE s[i]]

\* datetime.fromisoformat: ok = FALSE stands for ValueError
fromisoformat(s) ==
    IF Len(s) = 1 /\ s[1] \in 0..9
      THEN [ok |-> TRUE, t |-> s[1], aware |-> FALSE]
    ELSE IF Len(s) = 2 /\ s[1] \in 0..9 /\ s[2] = 43
      THEN [ok |-> TRUE, t |-> s[1], aware |-> TRUE]
    ELSE [ok |-> FALSE, t |-> 0, aware |-> FALSE]

\* datetime.now().isoformat(): a naive timestamp
isoformat(t) == <<t>>

\* lexicographic comparison of two strings (the store's order on strings)
RECURSIVE StrLe(_, _)
StrLe(a, b) ==
    IF a = <<>> THEN TRUE
    ELSE IF b = <<>> THEN FALSE
    ELSE IF a[1] < b[1] THEN TRUE
    ELSE IF a[1] > b[1] THEN FALSE
    ELSE StrLe(Tail(a), Tail(b))

\* variant: the end of the window compared with $gt
MatchGte_strict(field, v) == field # NoneV /\ StrLe(v, field) /\ field # v

\* {"field": {"$lte": v}} and {"field": {"$gte": v}}: only string values are compared
MatchLte(field, v) == field # NoneV /\ StrLe(field, v)
MatchGte(field, v) == field # NoneV /\ StrLe(v, field)

\* ObjectId(announcement_id): 0 stands for the exception (malformed id)
ObjectId(s) == IF Len(s) = 1 /\ s[1] \in 1..9 THEN s[1] ELSE 0

\* str(ObjectId)
StrOfId(oid) == <<oid>>

\* variant: start_dt > end_dt instead of start_dt >= end_dt
validate_dates_non_strict(start_date, end_date) ==
    LET end_dt == fromisoformat(ReplaceZ(end_date))
        start_dt == fromisoformat(ReplaceZ(start_date))
    IN  IF ~end_dt.ok THEN "bad_format"
        ELSE IF ~Truthy(start_date) THEN "ok"
        ELSE IF ~start_dt.ok THEN "bad_format"
        ELSE IF start_dt.aware # end_dt.aware THEN "type_error"
        ELSE IF start_dt.t > end_dt.t THEN "start_after_end"
        ELSE "ok"

\* variant: both dates parsed, their order not compared
validate_dates_unordered(start_date, end_date) ==
    LET end_dt == fromisoformat(ReplaceZ(end_date))
        start_dt == fromisoformat(ReplaceZ(start_date))
    IN  IF ~end_dt.ok THEN "bad_format"
        ELSE IF ~Truthy(start_date) THEN "ok"
        ELSE IF ~start_dt.ok THEN "bad_format"
        ELSE "ok"

\* the date validation shared by create and update:
\*   "ok", "bad_format" (ValueError), "start_after_end", "type_error" (naive vs aware)
validate_dates(start_date, end_date) ==
    LET end_dt == fromisoformat(ReplaceZ(end_date))
        start_dt == fromisoformat(ReplaceZ(start_date))
    IN  IF ~end_dt.ok THEN "bad_format"
        ELSE IF ~Truthy(start_date) THEN "ok"
        ELSE IF ~start_dt.ok THEN "bad_format"
        ELSE IF start_dt.aware # end_dt.aware THEN "type_error"
        ELSE IF start_dt.t >= end_dt.t THEN "start_after_end"
        ELSE "ok"

\* serialize_announcement: "_id" becomes the string "id"
serialize_announcement(oid, doc) ==
    [id |-> StrOfId(oid), message |-> doc.message,
     start_date |-> doc.start_date, end_date |-> doc.end_date,
     created_by |-> doc.created_by, created_at |-> doc.created_at,
     updated_by |-> doc.updated_by, updated_at |-> doc.updated_at]

\* the filter of get_active_announcements
active_query(doc, now) ==
    /\ (doc.start_date = NoneV \/ MatchLte(doc.start_date, now))
    /\ MatchGte(doc.end_date, now)

\* cursor.sort("created_at", -1): any order of the ids that is descending in created_at
SortedDesc(ids) ==
    {s \in [1..Cardinality(ids) -> ids] :
        /\ \A i, j \in 1..Cardinality(ids) : i # j => s[i] # s[j]
        /\ \A i \in 1..(Cardinality(ids) - 1) :
              StrLe(store[s[i + 1]].created_at, store[s[i]].created_at)}

SerializeAll(s) == [i \in 1..Len(s) |-> serialize_announcement(s[i], store[s[i]])]

-----------------------------------------------------------------------------
(* Requests *)

Idle == [op |-> "none", pc |-> "idle", teacher |-> Absent, id |-> EmptyStr,
         message |-> "", start_date |-> NoneV, end_date |-> NoneV,
         obj_id |-> 0,
         status |-> 0, detail |-> "", body |-> <<>>, reads |-> 0, writes |-> 0]

Call(op, teacher, id, message, start_date, end_date) ==
    [Idle EXCEPT !.op = op, !.teacher = teacher, !.id = id, !.message = message,
                 !.start_date = start_date, !.end_date = end_date]

Raise(r, code, detail) == [r EXCEPT !.pc = "done", !.status = code, !.detail = detail]

Return(r, body) == [r EXCEPT !.pc = "done", !.status = 200, !.body = body]

Free(w) == req[w].pc = "idle"

\* variant: the Teacher Directory is not consulted
auth_error_no_lookup(t) ==
    IF NoTeacher(t) THEN "Authentication required for this action" ELSE ""

\* the authentication preamble of every handler but /active; "" when it passes
auth_error(t) ==
    IF NoTeacher(t) THEN "Authentication required for this action"
    ELSE IF ~FindTeacher(t) THEN "Invalid teacher credentials"
    ELSE ""

Init ==
    /\ store = <<>>
    /\ nextId = 1
    /\ clock = 1
    /\ req = [w \in Workers |-> Idle]
    /\ writer = [i \in ObjectIds |-> "none"]

Tick ==
    /\ clock < MaxClock
    /\ clock' = clock + 1
    /\ UNCHANGED <<store, nextId, req, writer>>

\* GET /announcements/active
get_active_announcements(w) ==
    /\ Free(w)
    /\ LET now == isoformat(clock)
           r == [Call("list_active", Absent, EmptyStr, "", NoneV, NoneV)
                   EXCEPT !.reads = 1]
           hits == {i \in DOMAIN store : active_query(store[i], now)}
       IN  \E s \in SortedDesc(hits) :
              req' = [req EXCEPT ![w] = Return(r, SerializeAll(s))]
    /\ UNCHANGED <<store, nextId, clock, writer>>

\* GET /announcements
get_all_announcements(w, teacher_username) ==
    /\ Free(w)
    /\ LET r == Call("list_all", teacher_username, EmptyStr, "", NoneV, NoneV)
           err == auth_error(teacher_username)
       IN  IF err # ""
             THEN req' = [req EXCEPT ![w] = Raise(r, 401, err)]
             ELSE \E s \in SortedDesc(DOMAIN store) :
                    req' = [req EXCEPT ![w] =
                              Return([r EXCEPT !.reads = 1], SerializeAll(s))]
    /\ UNCHANGED <<store, nextId, clock, writer>>

\* variant: insert_one issued before the dates are validated
create_announcement_insert_first(w, message, end_date, teacher_username, start_date) ==
    /\ Free(w)
    /\ LET r == Call("create", teacher_username, EmptyStr, message, start_date, end_date)
           err == auth_error(teacher_username)
           v == validate_dates(start_date, end_date)
           announcement == [message |-> message, start_date |-> start_date,
                            end_date |-> end_date, created_by |-> teacher_username,
                            created_at |-> isoformat(clock),
                            updated_by |-> Absent, updated_at |-> NoneV]
           sent == [r EXCEPT !.obj_id = nextId, !.writes = 1]
       IN  IF err # "" THEN
             /\ req' = [req EXCEPT ![w] = Raise(r, 401, err)]
             /\ UNCHANGED <<store, nextId>>
           ELSE
             /\ nextId \in ObjectIds
             /\ store' = (nextId :> announcement) @@ store
             /\ nextId' = nextId + 1
             /\ req' = [req EXCEPT ![w] =
                   IF v = "start_after_end"
                     THEN Raise(sent, 400, "Start date must be before end date")
                   ELSE IF v = "bad_format" THEN Raise(sent, 400, "Invalid date format")
                   ELSE IF v = "type_error" THEN Raise(sent, 500, "Internal Server Error")
                   ELSE Return(sent, <<serialize_announcement(nextId, announcement)>>)]
    /\ UNCHANGED <<clock, writer>>

\* POST /announcements
create_announcement(w, message, end_date, teacher_username, start_date) ==
    /\ Free(w)
    /\ LET r == Call("create", teacher_username, EmptyStr, message, start_date, end_date)
           err == auth_error(teacher_username)
           v == validate_dates(start_date, end_date)
           now == isoformat(clock)
           announcement == [message |-> message, start_date |-> start_date,
                            end_date |-> end_date, created_by |-> teacher_username,
                            created_at |-> now,
                            updated_by |-> Absent, updated_at |-> NoneV]
       IN  IF err # "" THEN
             /\ req' = [req EXCEPT ![w] = Raise(r, 401, err)]
             /\ UNCHANGED <<store, nextId>>
           ELSE IF v = "start_after_end" THEN
             /\ req' = [req EXCEPT ![w] = Raise(r, 400, "Start date must be before end date")]
             /\ UNCHANGED <<store, nextId>>
           ELSE IF v = "bad_format" THEN
             /\ req' = [req EXCEPT ![w] = Raise(r, 400, "Invalid date format")]
             /\ UNCHANGED <<store, nextId>>
           ELSE IF v = "type_error" THEN
             /\ req' = [req EXCEPT ![w] = Raise(r, 500, "Internal Server Error")]
             /\ UNCHANGED <<store, nextId>>
           ELSE
             \* insert_one: the store assigns the _id
             /\ nextId \in ObjectIds
             /\ store' = (nextId :> announcement) @@ store
             /\ nextId' = nextId + 1
             /\ req' = [req EXCEPT ![w] =
                   Return([r EXCEPT !.obj_id = nextId, !.writes = 1],
                          <<serialize_announcement(nextId, announcement)>>)]
    /\ UNCHANGED <<clock, writer>>

\* variant: the existence check always passes
find_existing_any(obj_id) == TRUE

\* existing = find_one({"_id": obj_id}); `not existing`
find_existing(obj_id) == obj_id \in DOMAIN store

\* PUT /announcements/{announcement_id}: authentication, ObjectId, the existence
\* check find_one and the date validation, in the order of the code. The date
\* validation reads no shared state, so it is taken in one step with the find_one
\* before it; reads and writes count the store calls the request has issued.
update_begin(w, announcement_id, message, end_date, teacher_username, start_date) ==
    /\ Free(w)
    /\ LET r == Call("update", teacher_username, announcement_id, message,
                     start_date, end_date)
           err == auth_error(teacher_username)
           obj_id == ObjectId(announcement_id)
           found == [r EXCEPT !.obj_id = obj_id, !.reads = 1]
           v == validate_dates(start_date, end_date)
       IN  req' = [req EXCEPT ![w] =
             IF err # "" THEN Raise(r, 401, err)
             ELSE IF obj_id = 0 THEN Raise(r, 400, "Invalid announcement ID")
             ELSE IF ~find_existing(obj_id)
               THEN Raise(found, 404, "Announcement not found")
             ELSE IF v = "start_after_end"
               THEN Raise(found, 400, "Start date must be before end date")
             ELSE IF v = "bad_format" THEN Raise(found, 400, "Invalid date format")
             ELSE IF v = "type_error" THEN Raise(found, 500, "Internal Server Error")
             ELSE [found EXCEPT !.pc = "validated"]]
    /\ UNCHANGED <<store, nextId, clock, writer>>

\* variant: start_date and end_date swapped in the $set document
update_data_swapped(r, now) ==
    [message |-> r.message, start_date |-> r.end_date, end_date |-> r.start_date,
     updated_by |-> r.teacher, updated_at |-> now]

\* update_data built from the request
update_data(r, now) ==
    [message |-> r.message, start_date |-> r.start_date, end_date |-> r.end_date,
     updated_by |-> r.teacher, updated_at |-> now]

\* variant: update_one(..., upsert=True)
update_one_upsert(obj_id, data) ==
    IF obj_id \in DOMAIN store
      THEN [store EXCEPT ![obj_id] =
              [@ EXCEPT !.message = data.message, !.start_date = data.start_date,
                        !.end_date = data.end_date, !.updated_by = data.updated_by,
                        !.updated_at = data.updated_at]]
      ELSE (obj_id :> [message |-> data.message, start_date |-> data.start_date,
                       end_date |-> data.end_date, created_by |-> Absent,
                       created_at |-> NoneV, updated_by |-> data.updated_by,
                       updated_at |-> data.updated_at]) @@ store

\* variant: replace_one, the document becomes the update document
update_one_replace(obj_id, data) ==
    IF obj_id \in DOMAIN store
      THEN [store EXCEPT ![obj_id] =
              [message |-> data.message, start_date |-> data.start_date,
               end_date |-> data.end_date, created_by |-> Absent,
               created_at |-> NoneV, updated_by |-> data.updated_by,
               updated_at |-> data.updated_at]]
      ELSE store

\* update_one({"_id": obj_id}, {"$set": data}): no upsert
update_one(obj_id, data) ==
    IF obj_id \in DOMAIN store
      THEN [store EXCEPT ![obj_id] =
              [@ EXCEPT !.message = data.message, !.start_date = data.start_date,
                        !.end_date = data.end_date, !.updated_by = data.updated_by,
                        !.updated_at = data.updated_at]]
      ELSE store

\* PUT, continued: update_data and update_one
update_write(w) ==
    /\ req[w].pc = "validated"
    /\ LET now == isoformat(clock)
       IN  /\ store' = update_one(req[w].obj_id, update_data(req[w], now))
           /\ req' = [req EXCEPT ![w] =
                        [@ EXCEPT !.pc = "written", !.writes = 1]]
           /\ writer' = IF req[w].obj_id \in DOMAIN store
                         THEN [writer EXCEPT ![req[w].obj_id] = w] ELSE writer
    /\ UNCHANGED <<nextId, clock>>

\* PUT, end: the re-read find_one and serialize_announcement(updated);
\* serialize_announcement(None) raises TypeError
update_return(w) ==
    /\ req[w].pc = "written"
    /\ LET r == [req[w] EXCEPT !.reads = 2]
           i == req[w].obj_id
       IN  req' = [req EXCEPT ![w] =
             IF i \in DOMAIN store
               THEN Return(r, <<serialize_announcement(i, store[i])>>)
               ELSE Raise(r, 500, "Internal Server Error")]
    /\ UNCHANGED <<store, nextId, clock, writer>>

\* delete_one({"_id": obj_id}) on the collection
delete_one(obj_id) == [i \in DOMAIN store \ {obj_id} |-> store[i]]

\* DELETE /announcements/{announcement_id}
delete_announcement(w, announcement_id, teacher_username) ==
    /\ Free(w)
    /\ LET r == Call("delete", teacher_username, announcement_id, "", NoneV, NoneV)
           err == auth_error(teacher_username)
           obj_id == ObjectId(announcement_id)
           sent == [r EXCEPT !.obj_id = obj_id, !.writes = 1]
           deleted_count == IF obj_id \in DOMAIN store THEN 1 ELSE 0
       IN  IF err # "" THEN
             /\ req' = [req EXCEPT ![w] = Raise(r, 401, err)]
             /\ UNCHANGED store
           ELSE IF obj_id = 0 THEN
             /\ req' = [req EXCEPT ![w] = Raise(r, 400, "Invalid announcement ID")]
             /\ UNCHANGED store
           ELSE
             /\ store' = delete_one(obj_id)
             /\ req' = [req EXCEPT ![w] =
                   IF deleted_count = 0
                     THEN Raise(sent, 404, "Announcement not found")
                     ELSE [sent EXCEPT !.pc = "done", !.status = 200,
                                       !.detail = "Announcement deleted successfully"]]
    /\ UNCHANGED <<nextId, clock, writer>>

\* the response is delivered and the worker takes the next request
Release(w) ==
    /\ req[w].pc = "done"
    /\ req' = [req EXCEPT ![w] = Idle]
    /\ UNCHANGED <<store, nextId, clock, writer>>

-----------------------------------------------------------------------------
(* Two workers handle requests concurrently; every store call is atomic. *)

RaceCreates == {Payload("m1", NoneV, N2), Payload("m1", EmptyStr, N1)}
RaceUpdates == {Payload("m1", NoneV, N2), Payload("m2", N1, N2), Payload("m2", N2, N2)}
RaceId == <<1>>                    \* the announcement the racing requests address

Next ==
    \/ Tick
    \/ \E w \in Workers : get_active_announcements(w)
    \/ \E w \in Workers : get_all_announcements(w, "t1")
    \/ \E w \in Workers, p \in RaceCreates :
          create_announcement(w, p.message, p.end_date, "t1", p.start_date)
    \/ \E w \in Workers, p \in RaceUpdates :
          update_begin(w, RaceId, p.message, p.end_date, "t2", p.start_date)
    \/ \E w \in Workers : update_write(w)
    \/ \E w \in Workers : update_return(w)
    \/ \E w \in Workers : delete_announcement(w, RaceId, "t1")
    \/ \E w \in Workers : Release(w)

Spec == Init /\ [][Next]_vars

(* One worker handles one request at a time, over the whole input domain. *)

NextSerial ==
    \/ Tick
    \/ get_active_announcements("w1")
    \/ \E t \in CreatorInputs : get_all_announcements("w1", t)
    \/ \E p \in Payloads, t \in CreatorInputs :
          create_announcement("w1", p.message, p.end_date, t, p.start_date)
    \/ \E i \in IdInputs, p \in Payloads, t \in EditorInputs :
          update_begin("w1", i, p.message, p.end_date, t, p.start_date)
    \/ update_write("w1")
    \/ update_return("w1")
    \/ \E i \in IdInputs, t \in CreatorInputs : delete_announcement("w1", i, t)
    \/ Release("w1")

SpecSerial == Init /\ [][NextSerial]_vars

-----------------------------------------------------------------------------
(* Properties *)

\* worker w takes a request of one of the operations ops in this step
Starts(w, ops) == req[w].pc = "idle" /\ req'[w].pc # "idle" /\ req'[w].op \in ops

Failed(r, code, detail) == r.pc = "done" /\ r.status = code /\ r.detail = detail

StoreUntouched == store' = store /\ nextId' = nextId

DateErrors == {"Invalid date format", "Start date must be before end date"}

Canonical(doc) ==
    /\ fromisoformat(doc.end_date).ok /\ ~fromisoformat(doc.end_date).aware
    /\ \/ doc.start_date = NoneV
       \/ fromisoformat(doc.start_date).ok /\ ~fromisoformat(doc.start_date).aware

\* the active window of doc, on the parsed timestamps, contains instant t
InWindow(doc, t) ==
    /\ doc.start_date = NoneV \/ fromisoformat(doc.start_date).t <= t
    /\ fromisoformat(doc.end_date).t >= t

\* C2: list_active needs no teacher_username, leaves the store as it is, returns only
\* stored announcements, and returns a stored announcement with timestamps in the
\* clock's format iff (start_date is absent or start_date <= now) and end_date >= now.
C2_ActiveWindow ==
    [][\A w \in Workers :
          Starts(w, {"list_active"}) =>
            LET r == req'[w]
            IN  /\ r.pc = "done" /\ r.status = 200 /\ r.teacher = Absent
                /\ r.writes = 0 /\ StoreUntouched
                /\ \A k \in 1..Len(r.body) : ObjectId(r.body[k].id) \in DOMAIN store
                /\ \A i \in DOMAIN store :
                      Canonical(store[i]) =>
                        ((\E k \in 1..Len(r.body) :
                              r.body[k] = serialize_announcement(i, store[i]))
                          <=> InWindow(store[i], clock))]_vars

\* list_active returned one of two stored announcements: the other one has not
\* started yet
C2_Witness ==
    \E w \in Workers :
        /\ req[w].op = "list_active" /\ req[w].pc = "done"
        /\ Len(req[w].body) = 1
        /\ Cardinality(DOMAIN store) = 2
        /\ \E i \in DOMAIN store :
              /\ store[i].start_date = N2 /\ ~InWindow(store[i], clock)
              /\ StrOfId(i) # req[w].body[1].id

C4_UpdateMissingIsNotFound ==
    [][\A w \in Workers :
          (/\ Starts(w, {"update"})
           /\ req'[w].teacher \in teachers_collection
           /\ ObjectId(req'[w].id) # 0
           /\ ObjectId(req'[w].id) \notin DOMAIN store) =>
            /\ Failed(req'[w], 404, "Announcement not found")
            /\ req'[w].writes = 0
            /\ StoreUntouched]_vars

\* an update with an unparseable end_date of an id the store does not hold, answered 404
C4_Witness ==
    \E w \in Workers :
        /\ Failed(req[w], 404, "Announcement not found")
        /\ req[w].op = "update" /\ req[w].end_date = BadDate
        /\ DOMAIN store # {} /\ ObjectId(req[w].id) \notin DOMAIN store

\* the store handed out i and holds it no longer
Gone(i) == i \in ObjectIds /\ i < nextId /\ i \notin DOMAIN store

\* C5: a successful delete removes the record; a removed record never reappears;
\* every later delete or update of its id by an authorized teacher fails 404, and no
\* later list_active or list_all result contains it.
C5_DeleteIsPhysical ==
    [][/\ \A i \in ObjectIds : Gone(i) => i \notin DOMAIN store'
       /\ \A w \in Workers :
            LET r == req'[w]
            IN  /\ (Starts(w, {"delete"}) /\ r.status = 200) =>
                      /\ ObjectId(r.id) \in DOMAIN store
                      /\ ObjectId(r.id) \notin DOMAIN store'
                /\ (/\ Starts(w, {"delete", "update"})
                    /\ r.teacher \in teachers_collection
                    /\ Gone(ObjectId(r.id))) =>
                      Failed(r, 404, "Announcement not found")
                /\ Starts(w, {"list_active", "list_all"}) =>
                      \A k \in 1..Len(r.body) : ~Gone(ObjectId(r.body[k].id))]_vars

\* after the delete of an id, a second delete and an update of it were both answered 404
C5_Witness ==
    \E w, v \in Workers :
        /\ Failed(req[w], 404, "Announcement not found") /\ req[w].op = "delete"
        /\ Failed(req[v], 404, "Announcement not found") /\ req[v].op = "update"
        /\ req[v].id = req[w].id /\ Gone(ObjectId(req[w].id))

\* C6 as stated: a create or update that ends in a date ValidationError has issued no
\* store operation of any kind.
C6_NoStoreOpBeforeDateError ==
    \A w \in Workers :
        (/\ req[w].pc = "done" /\ req[w].op \in {"create", "update"}
         /\ req[w].status = 400 /\ req[w].detail \in DateErrors) =>
            req[w].reads = 0 /\ req[w].writes = 0

\* C6, amended: a create or update that ends in a date ValidationError has issued no
\* store write; create has issued no store operation at all, update exactly one read
\* (the existence check, which precedes the date validation).
C6_NoWriteBeforeDateError ==
    \A w \in Workers :
        (/\ req[w].pc = "done" /\ req[w].op \in {"create", "update"}
         /\ req[w].status = 400 /\ req[w].detail \in DateErrors) =>
            /\ req[w].writes = 0
            /\ req[w].reads = IF req[w].op = "update" THEN 1 ELSE 0

\* an update of an existing announcement refused for start_date >= end_date
C6_Witness ==
    \E w \in Workers :
        /\ Failed(req[w], 400, "Start date must be before end date")
        /\ req[w].op = "update" /\ req[w].reads = 1
        /\ ObjectId(req[w].id) \in DOMAIN store

\* C7: the write of an update replaces message, start_date, end_date, updated_by and
\* updated_at of its record by the call's values; the record's id, created_by and
\* created_at and every other stored announcement stay as they were.
C7_UpdateFrame ==
    [][\A w \in Workers :
          (/\ req[w].pc = "validated" /\ req'[w].pc = "written"
           /\ req[w].obj_id \in DOMAIN store) =>
            LET r == req[w]
                i == req[w].obj_id
            IN  /\ DOMAIN store' = DOMAIN store
                /\ store'[i].message = r.message
                /\ store'[i].start_date = r.start_date
                /\ store'[i].end_date = r.end_date
                /\ store'[i].updated_by = r.teacher
                /\ store'[i].updated_at = isoformat(clock)
                /\ store'[i].created_by = store[i].created_by
                /\ store'[i].created_at = store[i].created_at
                /\ \A j \in DOMAIN store \ {i} : store'[j] = store[j]]_vars

\* an update has rewritten one of two stored announcements, created earlier by
\* another teacher
C7_Witness ==
    \E w \in Workers :
        /\ req[w].op = "update" /\ req[w].pc = "written"
        /\ Cardinality(DOMAIN store) = 2
        /\ req[w].obj_id \in DOMAIN store
        /\ store[req[w].obj_id].updated_by = "t2"
        /\ store[req[w].obj_id].created_by = "t1"
        /\ store[req[w].obj_id].message = "m2"
        /\ store[req[w].obj_id].updated_at # store[req[w].obj_id].created_at

\* start_date and end_date of doc parse and start_date is strictly before end_date
StartBeforeEnd(doc) ==
    LET s == fromisoformat(ReplaceZ(doc.start_date))
        e == fromisoformat(ReplaceZ(doc.end_date))
    IN  s.ok /\ e.ok /\ s.aware = e.aware /\ s.t < e.t

C9_ReturnsOwnArguments ==
    \A w \in Workers :
        (req[w].pc = "done" /\ req[w].op = "update" /\ req[w].status = 200) =>
            /\ req[w].body[1].message = req[w].message
            /\ req[w].body[1].start_date = req[w].start_date
            /\ req[w].body[1].end_date = req[w].end_date
            /\ req[w].body[1].updated_by = req[w].teacher

\* C9, amended: the record a successful update returns is the record as its re-read
\* finds it in the store; it carries the call's own message, start_date, end_date and
\* updated_by when no other update of the same id was written after this call's write.
C9_ReturnsRereadRecord ==
    [][\A w \in Workers :
          (req[w].pc = "written" /\ req'[w].pc = "done" /\ req'[w].status = 200) =>
            LET r == req'[w]
                i == req[w].obj_id
            IN  /\ i \in DOMAIN store
                /\ r.body = <<serialize_announcement(i, store[i])>>
                /\ r.body[1].id = r.id
                /\ writer[i] = w =>
                      /\ r.body[1].message = r.message
                      /\ r.body[1].start_date = r.start_date
                      /\ r.body[1].end_date = r.end_date
                      /\ r.body[1].updated_by = r.teacher]_vars

\* a successful update returned the message of the other worker's update, written
\* between its own write and its re-read
C9_Witness ==
    \E w \in Workers :
        /\ req[w].pc = "done" /\ req[w].op = "update" /\ req[w].status = 200
        /\ writer[req[w].obj_id] \notin {w, "none"}
        /\ req[w].body[1].message # req[w].message

\* C10: every update request ends in success with the announcement record, in 401,
\* in 400 or in 404.
C10_UpdateOutcomes ==
    \A w \in Workers :
        (req[w].pc = "done" /\ req[w].op = "update") =>
            /\ req[w].status \in {200, 400, 401, 404}
            /\ req[w].status = 200 => Len(req[w].body) = 1

====
